---------------------------- MODULE Spec2Model ----------------------------
(***************************************************************************)
(* Learning-rate decay schedules of python/paddle/v2/fluid/                *)
(* learning_rate_decay.py.  Each schedule function validates its           *)
(* arguments and then appends operators to the program graph; an executor  *)
(* run evaluates the graph for the current value of global_step.  The      *)
(* model keeps the graph as a sequence of operator records and evaluates   *)
(* it with exact arithmetic: a tensor value is q * exp(x) with q and x     *)
(* rational, so every value the schedules produce for the inputs below is  *)
(* represented exactly (float32 rounding is outside the model).            *)
(***************************************************************************)
EXTENDS Integers, Sequences, FiniteSets

\* ------------------------------------------------------------- bounds
\* The training loop runs global_step = 0 .. MaxStep.
MaxStep == 7
\* piecewise_decay: at most MaxBoundaries boundaries, each in 1 .. MaxBoundary.
MaxBoundaries == 2
MaxBoundary == 3

\* ------------------------------------------------- exact rationals
\* A rational is <<n, d>> with d > 0 and gcd(n, d) = 1.  <<0, 0>> stands for
\* a non-finite result (inf or nan), which every operation propagates.
RECURSIVE Gcd(_, _)
Gcd(a, b) == IF b = 0 THEN a ELSE Gcd(b, a % b)

Abs(n) == IF n < 0 THEN -n ELSE n

NaN == <<0, 0>>
Zero == <<0, 1>>
One == <<1, 1>>

Norm(n, d) ==
    IF d = 0 THEN NaN
    ELSE LET s == IF d < 0 THEN -1 ELSE 1
             g == Gcd(Abs(n), Abs(d))
         IN  <<(s * n) \div g, (s * d) \div g>>

RFinite(a) == a[2] # 0
RAdd(a, b) == IF RFinite(a) /\ RFinite(b) THEN Norm(a[1] * b[2] + b[1] * a[2], a[2] * b[2]) ELSE NaN
RNeg(a) == IF RFinite(a) THEN <<-a[1], a[2]>> ELSE NaN
RSub(a, b) == RAdd(a, RNeg(b))
RMul(a, b) == IF RFinite(a) /\ RFinite(b) THEN Norm(a[1] * b[1], a[2] * b[2]) ELSE NaN
RDiv(a, b) == IF RFinite(a) /\ RFinite(b) THEN Norm(a[1] * b[2], a[2] * b[1]) ELSE NaN
RLess(a, b) == a[1] * b[2] < b[1] * a[2]
RLeq(a, b) == a[1] * b[2] <= b[1] * a[2]
RMin(a, b) == IF RLess(b, a) THEN b ELSE a
RFloor(a) == IF RFinite(a) THEN <<a[1] \div a[2], 1>> ELSE NaN
RCeil(a) == IF RFinite(a) THEN <<-((-a[1]) \div a[2]), 1>> ELSE NaN
R(n) == <<n, 1>>

RECURSIVE IPow(_, _)
IPow(a, n) == IF n = 0 THEN One ELSE RMul(a, IPow(a, n - 1))

\* The bases whose fractional powers the model represents exactly are the
\* integer powers of these roots.
PowRoots == {<<1, 2>>, <<2, 3>>, <<1, 1>>}

\* a ^ e for rational e = p/q: an integer power when q = 1, else the p-th
\* power of the exact q-th root of a.
RPow(a, e) ==
    IF ~(RFinite(a) /\ RFinite(e)) THEN NaN
    ELSE IF e[2] = 1
         THEN IF e[1] >= 0 THEN IPow(a, e[1]) ELSE RDiv(One, IPow(a, -e[1]))
         ELSE LET rs == {r \in PowRoots : IPow(r, e[2]) = a}
              IN  IF rs = {} \/ e[1] < 0 THEN NaN
                  ELSE IPow(CHOOSE r \in rs : TRUE, e[1])

\* ------------------------------------------------- tensor values
\* A scalar tensor value q * exp(x).
V(q) == [q |-> q, x |-> Zero]
VNaN == [q |-> NaN, x |-> NaN]
VFinite(a) == RFinite(a.q) /\ RFinite(a.x)
VPlain(a) == VFinite(a) /\ a.x = Zero
VTrue == V(One)
VFalse == V(Zero)

VMul(a, b) == IF VFinite(a) /\ VFinite(b) THEN [q |-> RMul(a.q, b.q), x |-> RAdd(a.x, b.x)] ELSE VNaN
VDiv(a, b) ==
    IF VFinite(a) /\ VFinite(b) /\ b.q # Zero
    THEN [q |-> RDiv(a.q, b.q), x |-> RSub(a.x, b.x)] ELSE VNaN
VAdd(a, b) == IF VFinite(a) /\ VFinite(b) /\ a.x = b.x THEN [q |-> RAdd(a.q, b.q), x |-> a.x] ELSE VNaN
VSub(a, b) == IF VFinite(a) /\ VFinite(b) /\ a.x = b.x THEN [q |-> RSub(a.q, b.q), x |-> a.x] ELSE VNaN
VPow(a, b) == IF VPlain(a) /\ VPlain(b) THEN V(RPow(a.q, b.q)) ELSE VNaN
VMin(a, b) == IF VPlain(a) /\ VPlain(b) THEN V(RMin(a.q, b.q)) ELSE VNaN
VFloor(a) == IF VPlain(a) THEN V(RFloor(a.q)) ELSE VNaN
VCeil(a) == IF VPlain(a) THEN V(RCeil(a.q)) ELSE VNaN
VExp(a) == IF VPlain(a) THEN [q |-> One, x |-> a.q] ELSE VNaN
VLessThan(a, b) == IF VPlain(a) /\ VPlain(b) /\ RLess(a.q, b.q) THEN VTrue ELSE VFalse
VEqual(a, b) == IF VFinite(a) /\ VFinite(b) /\ a = b THEN VTrue ELSE VFalse

\* ------------------------------------------------- the program graph
\* A variable of the graph is named <<name, index>>.
N(s) == <<s, 0>>
None == <<"", 0>>
GLOBAL_STEP == N("global_step")
LEARNING_RATE == N("learning_rate")

NoError == "none"
ValueError == "ValueError"

Op(type, x, y, out, value, block) ==
    [type |-> type, x |-> x, y |-> y, out |-> out, value |-> value, block |-> block]
FillConstant(out, q) == Op("fill_constant", None, None, out, V(q), <<>>)
Binary(type, x, y, out) == Op(type, x, y, out, VNaN, <<>>)
Unary(type, x, out) == Op(type, x, None, out, VNaN, <<>>)
Assign(input, output) == Op("assign", input, None, output, VNaN, <<>>)
SwitchBegin == Op("switch", None, None, None, VNaN, <<>>)
SwitchCase(cond, block) == Op("case", cond, None, None, VNaN, block)
SwitchDefault(block) == Op("default", None, None, None, VNaN, block)

Bind(env, name, val) ==
    [k \in (DOMAIN env) \cup {name} |-> IF k = name THEN val ELSE env[k]]

\* One operator of the graph, run by the executor.  st.matched is the
\* Switch's record that an earlier case was taken; st.trace logs every
\* assign that ran.
RECURSIVE ExecBlock(_, _, _)
ExecOp(op, st) ==
    LET e == st.env
        set(val) == [st EXCEPT !.env = Bind(e, op.out, val)]
    IN  CASE op.type = "fill_constant" -> set(op.value)
          [] op.type = "elementwise_div" -> set(VDiv(e[op.x], e[op.y]))
          [] op.type = "elementwise_mul" -> set(VMul(e[op.x], e[op.y]))
          [] op.type = "elementwise_add" -> set(VAdd(e[op.x], e[op.y]))
          [] op.type = "elementwise_sub" -> set(VSub(e[op.x], e[op.y]))
          [] op.type = "elementwise_pow" -> set(VPow(e[op.x], e[op.y]))
          [] op.type = "elementwise_min" -> set(VMin(e[op.x], e[op.y]))
          [] op.type = "less_than" -> set(VLessThan(e[op.x], e[op.y]))
          [] op.type = "equal" -> set(VEqual(e[op.x], e[op.y]))
          [] op.type = "floor" -> set(VFloor(e[op.x]))
          [] op.type = "ceil" -> set(VCeil(e[op.x]))
          [] op.type = "exp" -> set(VExp(e[op.x]))
          [] op.type = "assign" ->
                [st EXCEPT !.env = Bind(e, op.out, e[op.x]),
                           !.trace = Append(@, [input |-> op.x, output |-> op.out])]
          [] op.type = "switch" -> [st EXCEPT !.matched = FALSE]
          [] op.type = "case" ->
                IF ~st.matched /\ e[op.x] = VTrue
                THEN ExecBlock(op.block, 1, [st EXCEPT !.matched = TRUE])
                ELSE st
          [] op.type = "default" ->
                IF ~st.matched
                THEN ExecBlock(op.block, 1, [st EXCEPT !.matched = TRUE])
                ELSE st

ExecBlock(block, i, st) ==
    IF i > Len(block) THEN st ELSE ExecBlock(block, i + 1, ExecOp(block[i], st))

\* exe.run(program) with global_step fed as `s`, on the scope `sc`.
Execute(program, sc, s) ==
    ExecBlock(program, 1,
              [env |-> Bind(sc, GLOBAL_STEP, V(R(s))), trace |-> <<>>, matched |-> FALSE])

\* ------------------------------------------------- the schedule functions
\* A schedule function takes the program P = [ops, gvars] it is called on
\* and returns the program it leaves behind, the exception it raised (if
\* any) and the variable it returns.  A Python scalar that meets a Variable
\* in an arithmetic expression enters the graph as a fill_constant.
Raise(P, msg) == [ops |-> P.ops, gvars |-> P.gvars, err |-> ValueError, msg |-> msg, ret |-> None]
Return(P, ret) == [ops |-> P.ops, gvars |-> P.gvars, err |-> NoError, msg |-> "", ret |-> ret]
Emit(P, new) == [P EXCEPT !.ops = @ \o new]
Scalar(name, q) == FillConstant(N(name), q)

LenMsg == "len(values) - len(boundaries) should be 1"

\* Variant of exponential_decay: div_res ** decay_rate instead of decay_rate ** div_res.
exponential_decay_SwappedPow(P, learning_rate, global_step, decay_steps, decay_rate, staircase) ==
    IF ~global_step.isvar
    THEN Raise(P, "global_step is required for exponential_decay.")
    ELSE LET div == <<Scalar("decay_steps", R(decay_steps)),
                      Binary("elementwise_div", global_step.name, N("decay_steps"), N("div_res"))>>
             flr == IF staircase THEN <<Unary("floor", N("div_res"), N("floor_res"))>> ELSE <<>>
             div_res == IF staircase THEN N("floor_res") ELSE N("div_res")
             lr == <<Scalar("decay_rate", decay_rate),
                     Binary("elementwise_pow", div_res, N("decay_rate"), N("pow_res")),
                     Scalar("lr", learning_rate),
                     Binary("elementwise_mul", N("lr"), N("pow_res"), N("decayed_lr"))>>
         IN  Return(Emit(P, div \o flr \o lr), N("decayed_lr"))

exponential_decay(P, learning_rate, global_step, decay_steps, decay_rate, staircase) ==
    IF ~global_step.isvar
    THEN Raise(P, "global_step is required for exponential_decay.")
    ELSE LET div == <<Scalar("decay_steps", R(decay_steps)),
                      Binary("elementwise_div", global_step.name, N("decay_steps"), N("div_res"))>>
             flr == IF staircase THEN <<Unary("floor", N("div_res"), N("floor_res"))>> ELSE <<>>
             div_res == IF staircase THEN N("floor_res") ELSE N("div_res")
             lr == <<Scalar("decay_rate", decay_rate),
                     Binary("elementwise_pow", N("decay_rate"), div_res, N("pow_res")),
                     Scalar("lr", learning_rate),
                     Binary("elementwise_mul", N("lr"), N("pow_res"), N("decayed_lr"))>>
         IN  Return(Emit(P, div \o flr \o lr), N("decayed_lr"))

\* Variant of natural_exp_decay: the staircase flag is ignored, div_res is never floored.
natural_exp_decay_NoFloor(P, learning_rate, global_step, decay_steps, decay_rate, staircase) ==
    IF ~global_step.isvar
    THEN Raise(P, "global_step is required for natural_exp_decay.")
    ELSE LET div == <<Scalar("decay_steps", R(decay_steps)),
                      Binary("elementwise_div", global_step.name, N("decay_steps"), N("div_res"))>>
             div_res == N("div_res")
             lr == <<Scalar("neg_decay_rate", RMul(R(-1), decay_rate)),
                     Binary("elementwise_mul", N("neg_decay_rate"), div_res, N("exp_arg")),
                     Unary("exp", N("exp_arg"), N("exp_res")),
                     Scalar("lr", learning_rate),
                     Binary("elementwise_mul", N("lr"), N("exp_res"), N("decayed_lr"))>>
         IN  Return(Emit(P, div \o lr), N("decayed_lr"))

natural_exp_decay(P, learning_rate, global_step, decay_steps, decay_rate, staircase) ==
    IF ~global_step.isvar
    THEN Raise(P, "global_step is required for natural_exp_decay.")
    ELSE LET div == <<Scalar("decay_steps", R(decay_steps)),
                      Binary("elementwise_div", global_step.name, N("decay_steps"), N("div_res"))>>
             flr == IF staircase THEN <<Unary("floor", N("div_res"), N("floor_res"))>> ELSE <<>>
             div_res == IF staircase THEN N("floor_res") ELSE N("div_res")
             lr == <<Scalar("neg_decay_rate", RMul(R(-1), decay_rate)),
                     Binary("elementwise_mul", N("neg_decay_rate"), div_res, N("exp_arg")),
                     Unary("exp", N("exp_arg"), N("exp_res")),
                     Scalar("lr", learning_rate),
                     Binary("elementwise_mul", N("lr"), N("exp_res"), N("decayed_lr"))>>
         IN  Return(Emit(P, div \o flr \o lr), N("decayed_lr"))

inverse_time_decay(P, learning_rate, global_step, decay_steps, decay_rate, staircase) ==
    IF ~global_step.isvar
    THEN Raise(P, "global_step is required for inverse_time_decay.")
    ELSE LET div == <<Scalar("decay_steps", R(decay_steps)),
                      Binary("elementwise_div", global_step.name, N("decay_steps"), N("div_res"))>>
             flr == IF staircase THEN <<Unary("floor", N("div_res"), N("floor_res"))>> ELSE <<>>
             div_res == IF staircase THEN N("floor_res") ELSE N("div_res")
             lr == <<Scalar("decay_rate", decay_rate),
                     Binary("elementwise_mul", N("decay_rate"), div_res, N("mul_res")),
                     Scalar("one", One),
                     Binary("elementwise_add", N("one"), N("mul_res"), N("denom")),
                     Scalar("lr", learning_rate),
                     Binary("elementwise_div", N("lr"), N("denom"), N("decayed_lr"))>>
         IN  Return(Emit(P, div \o flr \o lr), N("decayed_lr"))

\* Variant of PolynomialCycle: no switch case for global_step == 0.
PolynomialCycle_NoZeroCase(global_step, decay_steps) ==
    <<Scalar("decay_steps", R(decay_steps)),
      Binary("elementwise_div", global_step.name, N("decay_steps"), N("div_tmp")),
      Unary("ceil", N("div_tmp"), N("div_res")),
      FillConstant(N("zero_var"), Zero),
      FillConstant(N("one_var"), One),
      Binary("elementwise_mul", N("decay_steps"), N("div_res"), N("decay_steps_mul"))>>

\* Variant of PolynomialCycle: floor in place of ceil.
PolynomialCycle_Floor(global_step, decay_steps) ==
    <<Scalar("decay_steps", R(decay_steps)),
      Binary("elementwise_div", global_step.name, N("decay_steps"), N("div_tmp")),
      Unary("floor", N("div_tmp"), N("div_res")),
      FillConstant(N("zero_var"), Zero),
      FillConstant(N("one_var"), One),
      SwitchBegin,
      Binary("equal", global_step.name, N("zero_var"), N("cond")),
      SwitchCase(N("cond"), <<Assign(N("one_var"), N("div_res"))>>),
      Binary("elementwise_mul", N("decay_steps"), N("div_res"), N("decay_steps_mul"))>>

\* cycle=True: decay_steps * ceil(global_step / decay_steps), the multiplier
\* overwritten with 1 when global_step == 0.
PolynomialCycle(global_step, decay_steps) ==
    <<Scalar("decay_steps", R(decay_steps)),
      Binary("elementwise_div", global_step.name, N("decay_steps"), N("div_tmp")),
      Unary("ceil", N("div_tmp"), N("div_res")),
      FillConstant(N("zero_var"), Zero),
      FillConstant(N("one_var"), One),
      SwitchBegin,
      Binary("equal", global_step.name, N("zero_var"), N("cond")),
      SwitchCase(N("cond"), <<Assign(N("one_var"), N("div_res"))>>),
      Binary("elementwise_mul", N("decay_steps"), N("div_res"), N("decay_steps_mul"))>>

\* Variant of PolynomialClamp: global_step is used without the elementwise_min.
PolynomialClamp_Unclamped(global_step, decay_steps) ==
    <<FillConstant(N("decay_steps_var"), R(decay_steps)),
      Assign(global_step.name, N("min_step")),
      Scalar("decay_steps", R(decay_steps))>>

\* cycle=False: global_step = min(global_step, decay_steps).
PolynomialClamp(global_step, decay_steps) ==
    <<FillConstant(N("decay_steps_var"), R(decay_steps)),
      Binary("elementwise_min", global_step.name, N("decay_steps_var"), N("min_step")),
      Scalar("decay_steps", R(decay_steps))>>

\* Variant of PolynomialFormula: end_learning_rate - learning_rate as the factor.
PolynomialFormula_SwappedDiff(step_v, steps_v, learning_rate, end_learning_rate, power) ==
    <<Binary("elementwise_div", step_v, steps_v, N("ratio")),
      Scalar("one", One),
      Binary("elementwise_sub", N("one"), N("ratio"), N("base")),
      Scalar("power", power),
      Binary("elementwise_pow", N("base"), N("power"), N("pow_res")),
      Scalar("lr_diff", RSub(end_learning_rate, learning_rate)),
      Binary("elementwise_mul", N("lr_diff"), N("pow_res"), N("mul_res")),
      Scalar("end_lr", end_learning_rate),
      Binary("elementwise_add", N("mul_res"), N("end_lr"), N("decayed_lr"))>>

\* (learning_rate - end_learning_rate) * (1 - global_step / decay_steps) ** power
\*     + end_learning_rate
PolynomialFormula(step_v, steps_v, learning_rate, end_learning_rate, power) ==
    <<Binary("elementwise_div", step_v, steps_v, N("ratio")),
      Scalar("one", One),
      Binary("elementwise_sub", N("one"), N("ratio"), N("base")),
      Scalar("power", power),
      Binary("elementwise_pow", N("base"), N("power"), N("pow_res")),
      Scalar("lr_diff", RSub(learning_rate, end_learning_rate)),
      Binary("elementwise_mul", N("lr_diff"), N("pow_res"), N("mul_res")),
      Scalar("end_lr", end_learning_rate),
      Binary("elementwise_add", N("mul_res"), N("end_lr"), N("decayed_lr"))>>

polynomial_decay(P, learning_rate, global_step, decay_steps, end_learning_rate, power, cycle) ==
    IF ~global_step.isvar
    THEN Raise(P, "global_step is required for inverse_time_decay.")
    ELSE LET pre == IF cycle THEN PolynomialCycle(global_step, decay_steps)
                    ELSE PolynomialClamp(global_step, decay_steps)
             step_v == IF cycle THEN global_step.name ELSE N("min_step")
             steps_v == IF cycle THEN N("decay_steps_mul") ELSE N("decay_steps")
         IN  Return(Emit(P, pre \o PolynomialFormula(step_v, steps_v, learning_rate,
                                                      end_learning_rate, power)),
                    N("decayed_lr"))

\* Variant of PiecewiseCase: boundary_val < global_step as the case condition.
PiecewiseCase_SwappedCompare(global_step, boundaries, values, i) ==
    <<FillConstant(<<"boundary_val", i>>, R(boundaries[i])),
      FillConstant(<<"value_var", i>>, values[i]),
      Binary("less_than", <<"boundary_val", i>>, global_step.name, <<"cond", i>>),
      SwitchCase(<<"cond", i>>, <<Assign(<<"value_var", i>>, LEARNING_RATE)>>)>>

\* The operators piecewise_decay builds for boundary i (0-based in the
\* source, 1-based here): two constants, the comparison and the case block.
PiecewiseCase(global_step, boundaries, values, i) ==
    <<FillConstant(<<"boundary_val", i>>, R(boundaries[i])),
      FillConstant(<<"value_var", i>>, values[i]),
      Binary("less_than", global_step.name, <<"boundary_val", i>>, <<"cond", i>>),
      SwitchCase(<<"cond", i>>, <<Assign(<<"value_var", i>>, LEARNING_RATE)>>)>>

RECURSIVE PiecewiseCases(_, _, _, _)
PiecewiseCases(global_step, boundaries, values, i) ==
    IF i > Len(boundaries) THEN <<>>
    ELSE PiecewiseCase(global_step, boundaries, values, i)
         \o PiecewiseCases(global_step, boundaries, values, i + 1)

\* Variant of piecewise_decay: the global variable is created before the isinstance check.
piecewise_decay_LateStepCheck(P, global_step, boundaries, values) ==
    IF Len(values) - Len(boundaries) # 1
    THEN Raise(P, LenMsg)
    ELSE LET Q == [P EXCEPT !.gvars = Bind(@, LEARNING_RATE, V(Zero))]
         IN  IF ~global_step.isvar
             THEN Raise(Q, "global_step is required for piecewise_decay.")
             ELSE LET sw == <<SwitchBegin>>
                            \o PiecewiseCases(global_step, boundaries, values, 1)
                            \o <<FillConstant(N("last_value_var"), values[Len(values)]),
                                 SwitchDefault(<<Assign(N("last_value_var"), LEARNING_RATE)>>)>>
                  IN  Return(Emit(Q, sw), LEARNING_RATE)

\* Variant of piecewise_decay: the length check rejects only too few values.
piecewise_decay_TooFewOnly(P, global_step, boundaries, values) ==
    IF Len(values) - Len(boundaries) < 1
    THEN Raise(P, LenMsg)
    ELSE IF ~global_step.isvar
    THEN Raise(P, "global_step is required for piecewise_decay.")
    ELSE LET Q == [P EXCEPT !.gvars = Bind(@, LEARNING_RATE, V(Zero))]
             sw == <<SwitchBegin>>
                   \o PiecewiseCases(global_step, boundaries, values, 1)
                   \o <<FillConstant(N("last_value_var"), values[Len(values)]),
                        SwitchDefault(<<Assign(N("last_value_var"), LEARNING_RATE)>>)>>
         IN  Return(Emit(Q, sw), LEARNING_RATE)

\* Variant of piecewise_decay: the last assign is outside switch.default().
piecewise_decay_UnguardedDefault(P, global_step, boundaries, values) ==
    IF Len(values) - Len(boundaries) # 1
    THEN Raise(P, LenMsg)
    ELSE IF ~global_step.isvar
    THEN Raise(P, "global_step is required for piecewise_decay.")
    ELSE LET Q == [P EXCEPT !.gvars = Bind(@, LEARNING_RATE, V(Zero))]
             sw == <<SwitchBegin>>
                   \o PiecewiseCases(global_step, boundaries, values, 1)
                   \o <<FillConstant(N("last_value_var"), values[Len(values)]),
                        Assign(N("last_value_var"), LEARNING_RATE)>>
         IN  Return(Emit(Q, sw), LEARNING_RATE)

piecewise_decay(P, global_step, boundaries, values) ==
    IF Len(values) - Len(boundaries) # 1
    THEN Raise(P, LenMsg)
    ELSE IF ~global_step.isvar
    THEN Raise(P, "global_step is required for piecewise_decay.")
    ELSE LET Q == [P EXCEPT !.gvars = Bind(@, LEARNING_RATE, V(Zero))]
             sw == <<SwitchBegin>>
                   \o PiecewiseCases(global_step, boundaries, values, 1)
                   \o <<FillConstant(N("last_value_var"), values[Len(values)]),
                        SwitchDefault(<<Assign(N("last_value_var"), LEARNING_RATE)>>)>>
         IN  Return(Emit(Q, sw), LEARNING_RATE)

\* ------------------------------------------------- state
VARIABLES
    ops,        \* the operators of the main program, in order
    gvars,      \* the program's global (persistable) variables and their initial values
    err,        \* the exception the schedule call raised, or NoError
    msg,        \* the exception's message
    ret,        \* the variable the schedule call returned
    call,       \* the schedule call made: the function and its arguments
    pc,         \* "build": no schedule yet, "train": training, "raised": the call failed
    step,       \* the value of global_step the next executor run is fed
    scope,      \* the variables' values after the last executor run
    trace       \* the assigns the last executor run performed

vars == <<ops, gvars, err, msg, ret, call, pc, step, scope, trace>>

\* ------------------------------------------------- inputs
AVariable == [isvar |-> TRUE, name |-> GLOBAL_STEP]
NotAVariable == [isvar |-> FALSE, name |-> None]
StepArgs == {AVariable, NotAVariable}
LearningRates == {One, <<1, 2>>}
DecayStepsSet == {1, 2, 3}
\* exponential_decay's decay_rate: an exact decay_steps-th power.
ExpRates(decay_steps) == {IPow(r, decay_steps) : r \in PowRoots}
DecayRates == {<<1, 2>>, One}
EndRates == {Zero, <<1, 4>>, <<3, 4>>}
Powers == {One, R(2), R(3)}
ValueSet == {Zero, <<1, 2>>, One}

SeqsUpTo(S, n) == UNION {[1..k -> S] : k \in 0..n}
BoundaryLists == SeqsUpTo(1..MaxBoundary, MaxBoundaries)
ValueLists == SeqsUpTo(ValueSet, MaxBoundaries + 1)

NoCall ==
    [fn |-> "none", learning_rate |-> Zero, global_step |-> NotAVariable, decay_steps |-> 0,
     decay_rate |-> Zero, staircase |-> FALSE, end_learning_rate |-> Zero, power |-> Zero,
     cycle |-> FALSE, boundaries |-> <<>>, values |-> <<>>]

EmptyProgram == [ops |-> <<>>, gvars |-> [k \in {GLOBAL_STEP} |-> V(Zero)]]

Init ==
    /\ ops = EmptyProgram.ops
    /\ gvars = EmptyProgram.gvars
    /\ err = NoError
    /\ msg = ""
    /\ ret = None
    /\ call = NoCall
    /\ pc = "build"
    /\ step = 0
    /\ scope = EmptyProgram.gvars
    /\ trace = <<>>

\* ------------------------------------------------- actions
\* The call `c` was made on the current program and left `r`.
Called(c, r) ==
    /\ call' = c
    /\ ops' = r.ops
    /\ gvars' = r.gvars
    /\ err' = r.err
    /\ msg' = r.msg
    /\ ret' = r.ret
    /\ scope' = r.gvars
    /\ pc' = IF r.err = NoError THEN "train" ELSE "raised"
    /\ UNCHANGED <<step, trace>>

Program == [ops |-> ops, gvars |-> gvars]

CallExponentialDecay ==
    /\ pc = "build"
    /\ \E lr \in LearningRates, gs \in StepArgs, ds \in DecayStepsSet, st \in BOOLEAN :
         \E dr \in ExpRates(ds) :
            Called([NoCall EXCEPT !.fn = "exponential_decay", !.learning_rate = lr,
                                  !.global_step = gs, !.decay_steps = ds,
                                  !.decay_rate = dr, !.staircase = st],
                   exponential_decay(Program, lr, gs, ds, dr, st))

CallNaturalExpDecay ==
    /\ pc = "build"
    /\ \E lr \in LearningRates, gs \in StepArgs, ds \in DecayStepsSet, st \in BOOLEAN,
          dr \in DecayRates :
            Called([NoCall EXCEPT !.fn = "natural_exp_decay", !.learning_rate = lr,
                                  !.global_step = gs, !.decay_steps = ds,
                                  !.decay_rate = dr, !.staircase = st],
                   natural_exp_decay(Program, lr, gs, ds, dr, st))

CallInverseTimeDecay ==
    /\ pc = "build"
    /\ \E lr \in LearningRates, gs \in StepArgs, ds \in DecayStepsSet, st \in BOOLEAN,
          dr \in DecayRates :
            Called([NoCall EXCEPT !.fn = "inverse_time_decay", !.learning_rate = lr,
                                  !.global_step = gs, !.decay_steps = ds,
                                  !.decay_rate = dr, !.staircase = st],
                   inverse_time_decay(Program, lr, gs, ds, dr, st))

CallPolynomialDecay ==
    /\ pc = "build"
    /\ \E lr \in LearningRates, gs \in StepArgs, ds \in DecayStepsSet, cy \in BOOLEAN,
          end \in EndRates, pw \in Powers :
            Called([NoCall EXCEPT !.fn = "polynomial_decay", !.learning_rate = lr,
                                  !.global_step = gs, !.decay_steps = ds,
                                  !.end_learning_rate = end, !.power = pw, !.cycle = cy],
                   polynomial_decay(Program, lr, gs, ds, end, pw, cy))

CallPiecewiseDecay ==
    /\ pc = "build"
    /\ \E gs \in StepArgs, bs \in BoundaryLists, vs \in ValueLists :
            Called([NoCall EXCEPT !.fn = "piecewise_decay", !.global_step = gs,
                                  !.boundaries = bs, !.values = vs],
                   piecewise_decay(Program, gs, bs, vs))

\* One training step: the executor runs the program with global_step = step,
\* and the step counter advances.
Run ==
    /\ pc = "train"
    /\ step <= MaxStep
    /\ LET st == Execute(ops, scope, step)
       IN  /\ scope' = st.env
           /\ trace' = st.trace
    /\ step' = step + 1
    /\ UNCHANGED <<ops, gvars, err, msg, ret, call, pc>>

Next ==
    \/ CallExponentialDecay
    \/ CallNaturalExpDecay
    \/ CallInverseTimeDecay
    \/ CallPolynomialDecay
    \/ CallPiecewiseDecay
    \/ Run

Spec == Init /\ [][Next]_vars

\* ------------------------------------------------- properties
\* At least one executor run has been made; it was fed global_step = LastStep
\* and left the returned learning-rate variable at Lr.
Trained == pc = "train" /\ step > 0
LastStep == step - 1
Lr == scope[ret]

Min(S) == CHOOSE m \in S : \A k \in S : m <= k
NonDecreasing(bs) == \A i \in 1..(Len(bs) - 1) : bs[i] <= bs[i + 1]

\* The piecewise rule as the specification words it, boundaries 1-based:
\* values[1] below boundaries[1], values[i] on [boundaries[i-1], boundaries[i]),
\* values[n+1] at or beyond boundaries[n].
PiecewiseRule ==
    LET b == call.boundaries
        v == call.values
        n == Len(b)
        s == LastStep
    IN  /\ (n >= 1 /\ s < b[1]) => Lr = V(v[1])
        /\ \A i \in 2..n : (b[i - 1] <= s /\ s < b[i]) => Lr = V(v[i])
        /\ (n >= 1 /\ s >= b[n]) => Lr = V(v[n + 1])

\* C1 as stated: for every boundaries list, sorted or not, every run of
\* piecewise_decay's graph yields the value the piecewise rule names.
C1_AnyBoundaries ==
    (call.fn = "piecewise_decay" /\ Trained) => PiecewiseRule

\* C1, amended: for non-decreasing boundaries every run of piecewise_decay's
\* graph yields values[i] for step in [boundaries[i-1], boundaries[i]),
\* values[0] below the first boundary and values[-1] at or beyond the last,
\* a step equal to a boundary belonging to the later piece.
C1_PiecewiseSorted ==
    (call.fn = "piecewise_decay" /\ Trained /\ NonDecreasing(call.boundaries)) => PiecewiseRule

C1_Witness ==
    /\ call.fn = "piecewise_decay" /\ Trained
    /\ Len(call.boundaries) = 2
    /\ call.boundaries[1] < call.boundaries[2]
    /\ LastStep = call.boundaries[1]
    /\ call.values[1] # call.values[2] /\ call.values[2] # call.values[3]
    /\ Lr = V(call.values[2])

\* C2: every schedule function raises ValueError when global_step is not a
\* Variable, and a call that raised left the program's operators and global
\* variables as they were.
C2_StepValidated ==
    (pc # "build") =>
        /\ ~call.global_step.isvar => (err = ValueError /\ pc = "raised")
        /\ err = ValueError => (ops = EmptyProgram.ops /\ gvars = EmptyProgram.gvars)

C2_Witness ==
    /\ call.fn = "piecewise_decay"
    /\ Len(call.values) = Len(call.boundaries) + 1
    /\ ~call.global_step.isvar
    /\ err = ValueError
    /\ ops = <<>>

\* C3: piecewise_decay raises the length ValueError exactly when
\* len(values) != len(boundaries) + 1, and then creates no learning-rate
\* variable or operator; with matching lengths (empty boundaries and one value
\* included) no length error is raised.
C3_LengthValidated ==
    (call.fn = "piecewise_decay") =>
        /\ Len(call.values) # Len(call.boundaries) + 1 =>
              /\ err = ValueError /\ msg = LenMsg
              /\ LEARNING_RATE \notin DOMAIN gvars
              /\ ops = <<>>
        /\ Len(call.values) = Len(call.boundaries) + 1 => msg # LenMsg

C3_Witness ==
    /\ call.fn = "piecewise_decay"
    /\ Len(call.values) > Len(call.boundaries) + 1
    /\ call.global_step.isvar
    /\ err = ValueError /\ msg = LenMsg

\* The decay_steps-th root of exponential_decay's decay_rate.
RateRoot == CHOOSE r \in PowRoots : IPow(r, call.decay_steps) = call.decay_rate

\* C4: without staircase exponential_decay yields
\* learning_rate * decay_rate ^ (step / decay_steps), that is
\* learning_rate * root ^ step for the decay_steps-th root of decay_rate:
\* learning_rate at step 0 and learning_rate * decay_rate ^ k at step
\* k * decay_steps.
C4_Exponential ==
    (call.fn = "exponential_decay" /\ ~call.staircase /\ Trained) =>
        LET s == LastStep
            d == call.decay_steps
        IN  /\ Lr = V(RMul(call.learning_rate, IPow(RateRoot, s)))
            /\ s = 0 => Lr = V(call.learning_rate)
            /\ s % d = 0 => Lr = V(RMul(call.learning_rate, IPow(call.decay_rate, s \div d)))

C4_Witness ==
    /\ call.fn = "exponential_decay" /\ ~call.staircase /\ Trained
    /\ call.decay_steps = 2 /\ call.decay_rate = <<1, 4>> /\ call.learning_rate = One
    /\ LastStep = 3
    /\ Lr = V(<<1, 8>>)

\* The schedule call `c` made on an empty program.
Build(c) ==
    CASE c.fn = "exponential_decay" ->
            exponential_decay(EmptyProgram, c.learning_rate, c.global_step, c.decay_steps,
                              c.decay_rate, c.staircase)
      [] c.fn = "natural_exp_decay" ->
            natural_exp_decay(EmptyProgram, c.learning_rate, c.global_step, c.decay_steps,
                              c.decay_rate, c.staircase)
      [] c.fn = "inverse_time_decay" ->
            inverse_time_decay(EmptyProgram, c.learning_rate, c.global_step, c.decay_steps,
                               c.decay_rate, c.staircase)

\* The learning rate the program `r` yields when run at global_step = s.
ResultAt(r, s) == Execute(r.ops, r.gvars, s).env[r.ret]

StaircaseFns == {"exponential_decay", "natural_exp_decay", "inverse_time_decay"}

CycleFormula(s) ==
    LET d == call.decay_steps
        steps == RMul(R(d), RCeil(RDiv(R(s), R(d))))
        base == RSub(One, RDiv(R(s), steps))
        diff == RSub(call.learning_rate, call.end_learning_rate)
    IN  V(RAdd(RMul(diff, RPow(base, call.power)), call.end_learning_rate))

PolynomialRun ==
    /\ call.fn = "polynomial_decay"
    /\ pc = "train" /\ pc' = "train"
    /\ step' = step + 1

C10_SingleAssignment ==
    (call.fn = "piecewise_decay" /\ Trained) =>
        LET b == call.boundaries
            v == call.values
            hits == {i \in 1..Len(b) : LastStep < b[i]}
            sel == IF hits = {} THEN Len(v) ELSE Min(hits)
            input == IF hits = {} THEN N("last_value_var") ELSE <<"value_var", sel>>
        IN  /\ trace = <<[input |-> input, output |-> LEARNING_RATE]>>
            /\ Lr = V(v[sel])
            /\ \E i \in 1..Len(v) : Lr = V(v[i])

C10_Witness ==
    /\ call.fn = "piecewise_decay" /\ Trained
    /\ Len(call.boundaries) = 2
    /\ call.boundaries[2] < call.boundaries[1]
    /\ LastStep < call.boundaries[2]
    /\ call.values[1] = One /\ call.values[2] = Zero /\ call.values[3] = <<1, 2>>
    /\ Len(trace) = 1
    /\ Lr = V(One)

=============================================================================
